---- MODULE Spec2Model ----
(***************************************************************************)
(* Compound V2 credit scoring: load_data -> preprocess_data ->             *)
(* calculate_scores -> nlargest/to_csv (src/scoring_model_final.py).       *)
(*                                                                         *)
(* DataFrames are modelled as [cols, rows]: the set of column names and    *)
(* the sequence of rows.  Floating point values are modelled as exact      *)
(* rationals extended with +inf, -inf and NaN (IEEE-754 special values,    *)
(* no rounding).                                                           *)
(***************************************************************************)
EXTENDS Integers, Sequences, FiniteSets, TLC

VARIABLES
    files,        \* the contents of the files opened so far, in the order of the list
    nfiles,       \* the length of the list of files
    fam,          \* the family of inputs this run draws its files from
    pc,           \* where the script is
    dfs,          \* load_data: one combined frame per file that had a collection
    raw_data,     \* the frame load_data returned
    data,         \* preprocess_data: the rows kept for aggregation
    features,     \* processed_data: the feature table
    scored_data,  \* the feature table with its score column
    csv,          \* top_wallets.csv
    stdout,       \* what the script reported
    sel_n         \* the n given to nlargest

vars == <<files, nfiles, fam, pc, dfs, raw_data, data, features, scored_data, csv, stdout,
          sel_n>>

----
(* Bounds of the model *)

\* files drawn for one run of load_data
MaxFiles == 2
\* records across all files of one run
MaxRecs == 2
\* rows of the table given to the top-N selection, and the largest n tried
MaxRows == 3

----
(* Missing values and extended rational numbers *)

\* a key that is absent from a JSON object / a missing cell (NaN/None) of an object column
NA == "NA"

RECURSIVE GCD(_, _)
GCD(a, b) == IF b = 0 THEN a ELSE GCD(b, a % b)

Abs(x) == IF x < 0 THEN -x ELSE x

\* the float n/d, d # 0, in lowest terms with a positive denominator
Fin(n, d) ==
    LET s == IF d < 0 THEN -1 ELSE 1
        g == GCD(Abs(n), Abs(d))
    IN  [k |-> "fin", n |-> (s * n) \div g, d |-> (s * d) \div g]

Num(n) == [k |-> "fin", n |-> n, d |-> 1]
PInf == [k |-> "pinf", n |-> 0, d |-> 1]
NInf == [k |-> "ninf", n |-> 0, d |-> 1]
NaN == [k |-> "nan", n |-> 0, d |-> 1]

IsNaN(v) == v.k = "nan"
IsFin(v) == v.k = "fin"

VNeg(v) ==
    CASE v.k = "fin" -> Fin(-v.n, v.d)
      [] v.k = "pinf" -> NInf
      [] v.k = "ninf" -> PInf
      [] OTHER -> NaN

\* IEEE addition: inf + (-inf) is NaN
VAdd(a, b) ==
    CASE IsNaN(a) \/ IsNaN(b) -> NaN
      [] IsFin(a) /\ IsFin(b) -> Fin(a.n * b.d + b.n * a.d, a.d * b.d)
      [] IsFin(a) -> b
      [] IsFin(b) -> a
      [] a.k = b.k -> a
      [] OTHER -> NaN

VSub(a, b) == VAdd(a, VNeg(b))

Sign(v) ==
    CASE v.k = "pinf" -> 1
      [] v.k = "ninf" -> -1
      [] v.k = "fin" -> (IF v.n > 0 THEN 1 ELSE IF v.n < 0 THEN -1 ELSE 0)
      [] OTHER -> 0

\* IEEE multiplication: 0 * inf is NaN
VMul(a, b) ==
    CASE IsNaN(a) \/ IsNaN(b) -> NaN
      [] IsFin(a) /\ IsFin(b) -> Fin(a.n * b.n, a.d * b.d)
      [] Sign(a) * Sign(b) > 0 -> PInf
      [] Sign(a) * Sign(b) < 0 -> NInf
      [] OTHER -> NaN

\* pandas/numpy float division: x/0 is +-inf for x # 0, and 0/0 is NaN
VDiv(a, b) ==
    CASE IsNaN(a) \/ IsNaN(b) -> NaN
      [] IsFin(a) /\ IsFin(b) /\ b.n # 0 -> Fin(a.n * b.d, a.d * b.n)
      [] IsFin(a) /\ IsFin(b) -> (IF a.n > 0 THEN PInf ELSE IF a.n < 0 THEN NInf ELSE NaN)
      [] IsFin(a) -> Num(0)
      [] IsFin(b) -> (IF Sign(a) * (IF b.n < 0 THEN -1 ELSE 1) > 0 THEN PInf ELSE NInf)
      [] OTHER -> NaN

\* a <= b on floats: false when either side is NaN
VLe(a, b) ==
    CASE IsNaN(a) \/ IsNaN(b) -> FALSE
      [] a.k = "ninf" \/ b.k = "pinf" -> TRUE
      [] a.k = "pinf" \/ b.k = "ninf" -> FALSE
      [] OTHER -> a.n * b.d <= b.n * a.d

VLt(a, b) == VLe(a, b) /\ a # b

\* Series.clip(lo, hi): NaN stays NaN
VClip(v, lo, hi) ==
    IF IsNaN(v) THEN NaN
    ELSE IF VLe(v, Num(lo)) THEN Num(lo)
    ELSE IF VLe(Num(hi), v) THEN Num(hi)
    ELSE v

\* Series.fillna(x): only NaN is replaced; +-inf is not a missing value
FillNa(v, x) == IF IsNaN(v) THEN Num(x) ELSE v

----
(* Input files (the JSON documents read by load_data) *)

\* the (key, transaction_type) pairs load_data loops over, in its order
KeyTypes == << <<"deposits", "deposit">>, <<"borrows", "borrow">>,
               <<"repayments", "repay">>, <<"withdrawals", "withdraw">>,
               <<"liquidations", "liquidation">> >>

CollKeys == {KeyTypes[j][1] : j \in 1..Len(KeyTypes)}
TransactionTypes == {KeyTypes[j][2] : j \in 1..Len(KeyTypes)}

\* wallet identifiers in the sort order groupby gives its keys
WalletOrder == <<"0xAA", "0xBB">>
Wallets == {WalletOrder[j] : j \in 1..Len(WalletOrder)}
Assets == {"USDC", "DAI"}

\* amountUSD as it stands in the JSON: decimal strings, text that is no number, or no key
RawAmounts == {"100", "50", "0", "abc"}

\* pd.to_numeric(..., errors='coerce') on one cell
ToNumeric(s) ==
    CASE s = "100" -> Num(100)
      [] s = "50" -> Num(50)
      [] s = "0" -> Num(0)
      [] OTHER -> NaN

\* one element of a collection; a field that is NA is a key the object does not have.
\* acct/asset/liqr/liqe stand for the nested objects account{id}, asset{symbol},
\* liquidator{id}, liquidatee{id}, which json_normalize flattens to dotted columns.
InRec(acct, amt, asset, ts, liqr, liqe) ==
    [acct |-> acct, amt |-> amt, asset |-> asset, ts |-> ts, liqr |-> liqr, liqe |-> liqe]

\* a parsed file: its top-level keys among the five collections, the collections, and
\* the top-level keys "liquidator.id" / "liquidatee.id" (NA: no such key)
NoRecs == [c \in CollKeys |-> <<>>]
File(keys, recs, mliqr, mliqe) ==
    [ok |-> TRUE, keys |-> keys, recs |-> recs, mliqr |-> mliqr, mliqe |-> mliqe]
\* a file json.load cannot parse
BadFile == [ok |-> FALSE, keys |-> {}, recs |-> NoRecs, mliqr |-> NA, mliqe |-> NA]

----
(* DataFrames *)

EmptyFrame == [cols |-> {}, rows |-> <<>>]

\* the columns DataFrame(records) gets: the union of the records' flattened keys
RecCols(r) ==
    (IF r.acct # NA THEN {"account.id"} ELSE {}) \cup
    (IF r.amt # NA THEN {"amountUSD"} ELSE {}) \cup
    (IF r.asset # NA THEN {"asset.symbol"} ELSE {}) \cup
    (IF r.ts # NA THEN {"timestamp"} ELSE {}) \cup
    (IF r.liqr # NA THEN {"liquidator.id"} ELSE {}) \cup
    (IF r.liqe # NA THEN {"liquidatee.id"} ELSE {})

SeqCols(recs) == UNION {RecCols(recs[j]) : j \in 1..Len(recs)}

\* json_normalize raises ValueError("Conflicting metadata name ...") when a meta name
\* is already a column of the flattened records
MetaConflict(recs) ==
    "liquidator.id" \in SeqCols(recs) \/ "liquidatee.id" \in SeqCols(recs)

\* pd.json_normalize(data, record_path=[key], meta=['liquidator.id','liquidatee.id'],
\* errors='ignore'), then df['transaction_type'] = transaction_type.
\* The meta values are read from the TOP level of the file and repeated on every row.
NormalizeTagged(f, key, ttype) ==
    [cols |-> SeqCols(f.recs[key]) \cup {"liquidator.id", "liquidatee.id", "transaction_type"},
     rows |-> [j \in 1..Len(f.recs[key]) |->
                  [acct |-> f.recs[key][j].acct, amt |-> f.recs[key][j].amt,
                   asset |-> f.recs[key][j].asset, ts |-> f.recs[key][j].ts,
                   liqr |-> f.mliqr, liqe |-> f.mliqe, ttype |-> ttype]]]

\* pd.concat(frames, ignore_index=True)
RECURSIVE Concat(_)
Concat(frames) ==
    IF frames = <<>> THEN EmptyFrame
    ELSE LET rest == Concat(Tail(frames))
         IN  [cols |-> Head(frames).cols \cup rest.cols,
              rows |-> Head(frames).rows \o rest.rows]

\* a test for emptiness that looks at the columns only
IsEmptyNoColumns(df) == df.cols = {}

\* DataFrame.empty
IsEmpty(df) == df.cols = {} \/ df.rows = <<>>

\* a loop that stops at the first collection it finds
RECURSIVE AllDataframesFirstOnly(_, _)
AllDataframesFirstOnly(f, j) ==
    IF j > Len(KeyTypes) THEN <<>>
    ELSE IF KeyTypes[j][1] \in f.keys
         THEN <<NormalizeTagged(f, KeyTypes[j][1], KeyTypes[j][2])>>
         ELSE AllDataframesFirstOnly(f, j + 1)

\* the all_dataframes list built for one file
RECURSIVE AllDataframes(_, _)
AllDataframes(f, j) ==
    IF j > Len(KeyTypes) THEN <<>>
    ELSE IF KeyTypes[j][1] \in f.keys
         THEN <<NormalizeTagged(f, KeyTypes[j][1], KeyTypes[j][2])>> \o AllDataframes(f, j + 1)
         ELSE AllDataframes(f, j + 1)

\* load_data on files that all parse and normalize: the frames of the files that had a
\* collection, concatenated
RECURSIVE LoadedFrames(_)
LoadedFrames(fs) ==
    IF fs = <<>> THEN <<>>
    ELSE (IF AllDataframes(Head(fs), 1) # <<>>
          THEN <<Concat(AllDataframes(Head(fs), 1))>>
          ELSE <<>>) \o LoadedFrames(Tail(fs))

LoadData(fs) == IF LoadedFrames(fs) # <<>> THEN Concat(LoadedFrames(fs)) ELSE EmptyFrame

\* some present collection of the file makes json_normalize raise
FileConflict(f) == \E c \in f.keys : MetaConflict(f.recs[c])

----
(* preprocess_data *)

\* data['amountUSD'] = pd.to_numeric(data['amountUSD'], errors='coerce')
CoerceAmount(rows) == [j \in 1..Len(rows) |-> [rows[j] EXCEPT !.amt = ToNumeric(@)]]

\* data.dropna(subset=['amountUSD'])
DropNaAmount(rows) == SelectSeq(rows, LAMBDA r : ~IsNaN(r.amt))

\* to_numeric then to_datetime(unit='s', errors='coerce') on one cell: NaT when invalid
ToTimestamp(t) == IF t = "1" THEN "1970-01-01 00:00:01" ELSE "NaT"

CoerceTimestamp(rows) == [j \in 1..Len(rows) |-> [rows[j] EXCEPT !.ts = ToTimestamp(@)]]

\* the columns preprocess_data reads by name; a missing one raises KeyError
PreprocessKeyError(df) ==
    \/ "amountUSD" \notin df.cols
    \/ "timestamp" \notin df.cols
    \/ "account.id" \notin df.cols
    \/ "asset.symbol" \notin df.cols

\* the sorted group keys of groupby(column): missing (NaN) keys form no group
GroupKeys(rows, col) ==
    SelectSeq(WalletOrder, LAMBDA w : \E j \in 1..Len(rows) : rows[j][col] = w)

Group(rows, col, w) == SelectSeq(rows, LAMBDA r : r[col] = w)

\* 'first' in place of 'sum'
FirstAmount(rows) == IF rows = <<>> THEN Num(0) ELSE Head(rows).amt

\* sum of amountUSD in row order
RECURSIVE SumAmount(_)
SumAmount(rows) ==
    IF rows = <<>> THEN Num(0) ELSE VAdd(Head(rows).amt, SumAmount(Tail(rows)))

RECURSIVE SumSquares(_)
SumSquares(rows) ==
    IF rows = <<>> THEN Num(0)
    ELSE VAdd(VMul(Head(rows).amt, Head(rows).amt), SumSquares(Tail(rows)))

\* the square of the sample standard deviation (ddof=1); NaN for a single row
SampleVar(rows) ==
    VDiv(VSub(VMul(Num(Len(rows)), SumSquares(rows)), VMul(SumAmount(rows), SumAmount(rows))),
         Num(Len(rows) * (Len(rows) - 1)))

\* 'nunique': distinct non-missing values
NUnique(rows) == Cardinality({rows[j].asset : j \in 1..Len(rows)} \ {NA})

\* 'count': rows whose transaction_type is not missing
CountTagged(rows) == Len(SelectSeq(rows, LAMBDA r : r.ttype # NA))

\* one row of groupby('account.id').agg({...}) after flattening the column names
AggRow(w, g) ==
    [acct |-> w,
     amountUSD_sum |-> SumAmount(g),
     amountUSD_mean |-> VDiv(SumAmount(g), Num(Len(g))),
     amountUSD_std |-> SampleVar(g),
     transaction_type_count |-> Num(CountTagged(g)),
     asset_symbol_nunique |-> Num(NUnique(g))]

GroupbyAgg(rows) ==
    LET ks == GroupKeys(rows, "acct")
    IN  [j \in 1..Len(ks) |-> AggRow(ks[j], Group(rows, "acct", ks[j]))]

\* rows[rows.transaction_type == t].groupby(col)['amountUSD'].sum(): a Series, here
\* the sequence of its (index, value) pairs
GroupSum(rows, t, col) ==
    LET sel == SelectSeq(rows, LAMBDA r : r.ttype = t)
        ks == GroupKeys(sel, col)
    IN  [j \in 1..Len(ks) |-> [key |-> ks[j], val |-> SumAmount(Group(sel, col, ks[j]))]]

\* ...groupby(col)['amountUSD'].count()
GroupCount(rows, t, col) ==
    LET sel == SelectSeq(rows, LAMBDA r : r.ttype = t)
        ks == GroupKeys(sel, col)
    IN  [j \in 1..Len(ks) |->
            [key |-> ks[j],
             val |-> Num(Len(SelectSeq(Group(sel, col, ks[j]), LAMBDA r : ~IsNaN(r.amt))))]]

\* how='inner': a row without a match is dropped
RECURSIVE InnerMerge(_, _, _)
InnerMerge(left, right, name) ==
    IF left = <<>> THEN <<>>
    ELSE LET l == Head(left)
             m == SelectSeq(right, LAMBDA e : e.key = l.acct)
         IN  [j \in 1..Len(m) |-> l @@ (name :> m[j].val)] \o InnerMerge(Tail(left), right, name)

\* left.merge(series, on account.id, how='left'): one output row per matching entry of
\* the right side, and one row with NaN when there is none
RECURSIVE LeftMerge(_, _, _)
LeftMerge(left, right, name) ==
    IF left = <<>> THEN <<>>
    ELSE LET l == Head(left)
             m == SelectSeq(right, LAMBDA e : e.key = l.acct)
             out == IF m = <<>> THEN << l @@ (name :> NaN) >>
                    ELSE [j \in 1..Len(m) |-> l @@ (name :> m[j].val)]
         IN  out \o LeftMerge(Tail(left), right, name)

FillNaColumn(rows, name, x) ==
    [j \in 1..Len(rows) |-> [rows[j] EXCEPT ![name] = FillNa(@, x)]]

\* features['liquidation_to_borrow_ratio'] = (liquidation / borrow).fillna(0)
LiquidationToBorrowRatio(r) == FillNa(VDiv(r.amountUSD_liquidation, r.amountUSD_borrow), 0)

AddRatio(rows) ==
    [j \in 1..Len(rows) |->
        rows[j] @@ ("liquidation_to_borrow_ratio" :> LiquidationToBorrowRatio(rows[j]))]

\* the rows kept for aggregation: amount coerced, NaN amounts dropped, timestamp coerced
CleanRows(rows) == CoerceTimestamp(DropNaAmount(CoerceAmount(rows)))

\* the feature table built from the cleaned rows
PreprocessData(rows) ==
    LET f0 == GroupbyAgg(rows)
        f1 == LeftMerge(f0, GroupSum(rows, "liquidation", "acct"), "amountUSD_liquidation")
        f2 == LeftMerge(f1, GroupSum(rows, "borrow", "acct"), "amountUSD_borrow")
        f3 == FillNaColumn(FillNaColumn(f2, "amountUSD_liquidation", 0), "amountUSD_borrow", 0)
        f4 == AddRatio(f3)
        f5 == LeftMerge(f4, GroupCount(rows, "liquidation", "liqr"), "liquidator_count")
        f6 == LeftMerge(f5, GroupCount(rows, "liquidation", "liqe"), "liquidatee_count")
    IN  FillNaColumn(FillNaColumn(f6, "liquidator_count", 0), "liquidatee_count", 0)

----
(* calculate_scores *)

\* the score without the final clip
ScoreOfUnclipped(r) ==
    LET s0 == Num(50)
        s1 == VAdd(s0, VClip(VDiv(r.amountUSD_sum, r.transaction_type_count), 0, 20))
        s2 == VAdd(s1, VMul(r.asset_symbol_nunique, Num(2)))
        s3 == VSub(s2, VMul(r.liquidation_to_borrow_ratio, Num(30)))
        s4 == VSub(s3, VMul(r.liquidatee_count, Num(5)))
    IN  VAdd(s4, VMul(r.liquidator_count, Num(2)))

\* the score with the running total clipped before the liquidator reward is added
ScoreOfEarlyClip(r) ==
    LET s0 == Num(50)
        s1 == VAdd(s0, VClip(VDiv(r.amountUSD_sum, r.transaction_type_count), 0, 20))
        s2 == VAdd(s1, VMul(r.asset_symbol_nunique, Num(2)))
        s3 == VSub(s2, VMul(r.liquidation_to_borrow_ratio, Num(30)))
        s4 == VClip(VSub(s3, VMul(r.liquidatee_count, Num(5))), 0, 100)
        s5 == VAdd(s4, VMul(r.liquidator_count, Num(2)))
    IN  VClip(s5, 0, 100)

\* the running score of one row, statement by statement
ScoreOf(r) ==
    LET s0 == Num(50)
        s1 == VAdd(s0, VClip(VDiv(r.amountUSD_sum, r.transaction_type_count), 0, 20))
        s2 == VAdd(s1, VMul(r.asset_symbol_nunique, Num(2)))
        s3 == VSub(s2, VMul(r.liquidation_to_borrow_ratio, Num(30)))
        s4 == VSub(s3, VMul(r.liquidatee_count, Num(5)))
        s5 == VAdd(s4, VMul(r.liquidator_count, Num(2)))
    IN  VClip(s5, 0, 100)

CalculateScores(rows) == [j \in 1..Len(rows) |-> rows[j] @@ ("score" :> ScoreOf(rows[j]))]

----
(* top-N selection and output *)

\* the N of scored_data.nlargest(1000, 'score')
TopN == 1000

\* insert r behind every row whose score is >= its own (stable, descending)
RECURSIVE InsertDesc(_, _)
InsertDesc(r, sorted) ==
    IF sorted = <<>> THEN <<r>>
    ELSE IF VLt(Head(sorted).score, r.score) THEN <<r>> \o sorted
    ELSE <<Head(sorted)>> \o InsertDesc(r, Tail(sorted))

RECURSIVE SortDesc(_, _)
SortDesc(rows, acc) ==
    IF rows = <<>> THEN acc ELSE SortDesc(Tail(rows), InsertDesc(Head(rows), acc))

Min(a, b) == IF a < b THEN a ELSE b

\* head(n): the first n rows, unsorted
NLargestHead(n, rows) == SubSeq(rows, 1, Min(n, Len(rows)))

\* DataFrame.nlargest(n, 'score'), keep='first'
NLargest(n, rows) == SubSeq(SortDesc(rows, <<>>), 1, Min(n, Len(rows)))

\* top_wallets[['account.id', 'score']]
Project(rows) == [j \in 1..Len(rows) |-> [acct |-> rows[j].acct, score |-> rows[j].score]]

NoCsv == [written |-> FALSE, rows |-> <<>>]

----
(* The file contents a run can read *)

\* a record placed in collection KeyTypes[key] of a file
Placement(key, rec) == [key |-> key, rec |-> rec]

\* placements listed in the order of KeyTypes
Ordered(l) == \A j \in 1..(Len(l) - 1) : l[j].key <= l[j + 1].key

\* the ways to lay n records of pool out in the collections of one file
Layouts(pool, n) ==
    {l \in [1..n -> {Placement(k, r) : k \in 1..Len(KeyTypes), r \in pool}] : Ordered(l)}

\* the records of collection KeyTypes[k], in their order
RecsAt(l, k) ==
    LET sel == SelectSeq(l, LAMBDA e : e.key = k)
    IN  [j \in 1..Len(sel) |-> sel[j].rec]

UsedKeys(l) == {KeyTypes[l[j].key][1] : j \in 1..Len(l)}

KeyIndex(c) == CHOOSE k \in 1..Len(KeyTypes) : KeyTypes[k][1] = c

\* parseable files holding exactly n records of pool
FilesWith(pool, n, meta) ==
    {File(UsedKeys(l), [c \in CollKeys |-> RecsAt(l, KeyIndex(c))], meta[1], meta[2]) :
        l \in Layouts(pool, n)}

\* files that yield no record: no collection at all, one empty collection, or no parse
NoMeta == <<NA, NA>>
FilesWithout == {File({}, NoRecs, NA, NA)} \cup {File({c}, NoRecs, NA, NA) : c \in CollKeys}

\* well-formed records: a timestamp, and no liquidator/liquidatee of their own
RecsA == {InRec(a, m, "USDC", "1", NA, NA) : a \in Wallets \cup {NA}, m \in RawAmounts}

\* records as in the two-file scenario: some lack a timestamp or an amount, some carry
\* their own liquidator
RecsB ==
    {InRec("0xAA", m, "USDC", t, lr, NA) : m \in {"100", "50", NA}, t \in {"1", NA},
                                           lr \in {NA, "0xBB"}}

\* records of a file whose top level names a liquidator and a liquidatee
RecsC == {InRec(a, m, s, "1", NA, NA) : a \in Wallets, m \in {"50", "abc"}, s \in Assets}
MetaC == <<"0xBB", "0xAA">>

Families == {"A", "B", "C"}

FilesA == [n \in 0..MaxRecs |-> IF n = 0 THEN FilesWithout ELSE FilesWith(RecsA, n, NoMeta)]
FilesB == FilesWith(RecsB, 1, NoMeta)
FilesC == [n \in 0..MaxRecs |-> IF n = 0 THEN {} ELSE FilesWith(RecsC, n, MetaC)]

RECURSIVE FileRecs(_, _)
FileRecs(f, j) ==
    IF j > Len(KeyTypes) THEN <<>> ELSE f.recs[KeyTypes[j][1]] \o FileRecs(f, j + 1)

RECURSIVE TotalRecs(_)
TotalRecs(fs) == IF fs = <<>> THEN 0 ELSE Len(FileRecs(Head(fs), 1)) + TotalRecs(Tail(fs))

\* what the next file of the list can hold, given the files read before it
NextFiles(family, read) ==
    CASE family = "A" ->
            {BadFile} \cup UNION {FilesA[n] : n \in 0..(MaxRecs - TotalRecs(read))}
      [] family = "B" -> FilesB
      [] OTHER -> UNION {FilesC[n] : n \in 0..(MaxRecs - TotalRecs(read))}

----
(* The run of the script *)

Init ==
    /\ fam \in Families
    /\ nfiles \in (IF fam = "A" THEN 1..MaxFiles ELSE IF fam = "B" THEN {2} ELSE {1})
    /\ files = <<>>
    /\ pc = "load"
    /\ dfs = <<>>
    /\ raw_data = EmptyFrame
    /\ data = <<>>
    /\ features = <<>>
    /\ scored_data = <<>>
    /\ csv = NoCsv
    /\ stdout = <<>>
    /\ sel_n = TopN

\* json.load raises on a file that does not parse; main does not catch it
LoadFileBad ==
    /\ pc = "load" /\ Len(files) < nfiles
    /\ \E f \in NextFiles(fam, files) :
          /\ ~f.ok
          /\ files' = Append(files, f)
    /\ pc' = "crashed"
    /\ UNCHANGED <<nfiles, fam, dfs, raw_data, data, features, scored_data, csv, stdout, sel_n>>

\* json_normalize raises ValueError on a collection whose records carry a liquidator
\* or liquidatee of their own; main does not catch it
LoadFileConflict ==
    /\ pc = "load" /\ Len(files) < nfiles
    /\ \E f \in NextFiles(fam, files) :
          /\ f.ok /\ FileConflict(f)
          /\ files' = Append(files, f)
    /\ pc' = "crashed"
    /\ UNCHANGED <<nfiles, fam, dfs, raw_data, data, features, scored_data, csv, stdout, sel_n>>

\* one iteration of the loop over files
LoadFile ==
    /\ pc = "load" /\ Len(files) < nfiles
    /\ \E f \in NextFiles(fam, files) :
          /\ f.ok /\ ~FileConflict(f)
          /\ files' = Append(files, f)
          /\ dfs' = IF AllDataframes(f, 1) # <<>>
                    THEN Append(dfs, Concat(AllDataframes(f, 1)))
                    ELSE dfs
    /\ UNCHANGED <<nfiles, fam, pc, raw_data, data, features, scored_data, csv, stdout, sel_n>>

\* return pd.concat(dfs, ignore_index=True) if dfs else pd.DataFrame()
LoadReturn ==
    /\ pc = "load" /\ Len(files) = nfiles
    /\ raw_data' = IF dfs # <<>> THEN Concat(dfs) ELSE EmptyFrame
    /\ pc' = "main"
    /\ UNCHANGED <<files, nfiles, fam, dfs, data, features, scored_data, csv, stdout, sel_n>>

\* if raw_data.empty: print("No data was loaded. ...")
MainNoData ==
    /\ pc = "main" /\ IsEmpty(raw_data)
    /\ stdout' = Append(stdout, "No data was loaded. Please verify the dataset.")
    /\ pc' = "done"
    /\ UNCHANGED <<files, nfiles, fam, dfs, raw_data, data, features, scored_data, csv, sel_n>>

MainLoaded ==
    /\ pc = "main" /\ ~IsEmpty(raw_data)
    /\ stdout' = Append(stdout, "Raw data loaded successfully.")
    /\ pc' = "preprocess"
    /\ UNCHANGED <<files, nfiles, fam, dfs, raw_data, data, features, scored_data, csv, sel_n>>

\* Step 2, a KeyError inside preprocess_data: caught, reported, exit()
PreprocessError ==
    /\ pc = "preprocess" /\ PreprocessKeyError(raw_data)
    /\ stdout' = Append(stdout, "Error during feature engineering")
    /\ pc' = "exited"
    /\ UNCHANGED <<files, nfiles, fam, dfs, raw_data, data, features, scored_data, csv, sel_n>>

\* Step 2: processed_data = preprocess_data(raw_data)
Preprocess ==
    /\ pc = "preprocess" /\ ~PreprocessKeyError(raw_data)
    /\ data' = CleanRows(raw_data.rows)
    /\ features' = PreprocessData(CleanRows(raw_data.rows))
    /\ stdout' = Append(stdout, "Feature engineering completed.")
    /\ pc' = "score"
    /\ UNCHANGED <<files, nfiles, fam, dfs, raw_data, scored_data, csv, sel_n>>

\* Step 3: scored_data = calculate_scores(processed_data)
Score ==
    /\ pc = "score"
    /\ scored_data' = CalculateScores(features)
    /\ stdout' = Append(stdout, "Credit scoring completed.")
    /\ pc' = "save"
    /\ UNCHANGED <<files, nfiles, fam, dfs, raw_data, data, features, csv, sel_n>>

\* Step 4: nlargest and to_csv('top_wallets.csv')
Save ==
    /\ pc = "save"
    /\ csv' = [written |-> TRUE, rows |-> Project(NLargest(sel_n, scored_data))]
    /\ stdout' = Append(stdout, "Top 1,000 wallets saved to 'top_wallets.csv'.")
    /\ pc' = "done"
    /\ UNCHANGED <<files, nfiles, fam, dfs, raw_data, data, features, scored_data, sel_n>>

Next ==
    \/ LoadFileBad
    \/ LoadFileConflict
    \/ LoadFile
    \/ LoadReturn
    \/ MainNoData
    \/ MainLoaded
    \/ PreprocessError
    \/ Preprocess
    \/ Score
    \/ Save

Spec == Init /\ [][Next]_vars

----
(* calculate_scores and the top-N selection on feature tables of any content *)

BackWalletOrder == <<"0xAA", "0xBB", "0xCC", "0xDD">>

\* a row of the feature table as preprocess_data builds it: the mean from sum and
\* count, the ratio from the liquidation and borrow sums
Feature(acct, sum, cnt, nuniq, liq, bor, lr, le) ==
    LET base == [acct |-> acct,
                 amountUSD_sum |-> Num(sum),
                 amountUSD_mean |-> VDiv(Num(sum), Num(cnt)),
                 amountUSD_std |-> NaN,
                 transaction_type_count |-> Num(cnt),
                 asset_symbol_nunique |-> Num(nuniq),
                 amountUSD_liquidation |-> Num(liq),
                 amountUSD_borrow |-> Num(bor)]
    IN  (base @@ ("liquidation_to_borrow_ratio" :> LiquidationToBorrowRatio(base)))
           @@ ("liquidator_count" :> Num(lr)) @@ ("liquidatee_count" :> Num(le))

\* (liquidation sum, borrow sum): no activity, ratio 1/2, ratio 3, +inf, -inf
LiqBor == {<<0, 0>>, <<50, 100>>, <<300, 100>>, <<50, 0>>, <<-50, 0>>}

\* one-row tables over a wide range of feature values
WideTables ==
    {<< Feature("0xAA", sum, cnt, nuniq, lb[1], lb[2], lr, le) >> :
        sum \in {-40, 30, 100}, cnt \in {1, 2}, nuniq \in {0, 1, 30},
        lb \in LiqBor, lr \in {0, 1, 40}, le \in {0, 1, 30}}

\* feature vectors with the scores 72, 57, 100 and 0
FewVectors ==
    {<<100, 1, 1, 0, 0, 0, 0>>, <<100, 1, 1, 50, 100, 0, 0>>,
     <<100, 1, 30, 0, 0, 0, 0>>, <<100, 1, 1, 50, 0, 0, 0>>}

\* tables of up to MaxRows rows, one row per wallet, in the order of the wallets
RowTables ==
    UNION {{[j \in 1..Len(ws) |->
                Feature(ws[j], v[j][1], v[j][2], v[j][3], v[j][4], v[j][5], v[j][6], v[j][7])] :
              v \in [1..Len(ws) -> FewVectors]} :
           ws \in {SelectSeq(BackWalletOrder, LAMBDA w : w \in S) :
                     S \in {T \in SUBSET {BackWalletOrder[j] : j \in 1..Len(BackWalletOrder)} :
                              Cardinality(T) <= MaxRows}}}

InitBack ==
    /\ fam = "-"
    /\ nfiles = 0
    /\ files = <<>>
    /\ pc = "score"
    /\ dfs = <<>>
    /\ raw_data = EmptyFrame
    /\ data = <<>>
    /\ features \in WideTables \cup RowTables
    /\ scored_data = <<>>
    /\ csv = NoCsv
    /\ stdout = <<>>
    /\ sel_n \in 0..MaxRows

NextBack == Score \/ Save

SpecBack == InitBack /\ [][NextBack]_vars

----
(* Claims about calculate_scores and the top-N selection, under SpecBack *)

InRange(v) == VLe(Num(0), v) /\ VLe(v, Num(100))

ClosedForm(r) ==
    VClip(VAdd(VSub(VSub(VAdd(VAdd(Num(50),
                                   VClip(VDiv(r.amountUSD_sum, r.transaction_type_count), 0, 20)),
                              VMul(Num(2), r.asset_symbol_nunique)),
                         VMul(Num(30), r.liquidation_to_borrow_ratio)),
                    VMul(Num(5), r.liquidatee_count)),
               VMul(Num(2), r.liquidator_count)),
          0, 100)

\* C3: the score is clip(50 + clip(sum/count, 0, 20) + 2*nunique - 30*ratio
\* - 5*liquidatee_count + 2*liquidator_count, 0, 100), clipped once and last; a wallet
\* with borrow 100 and liquidation 50 has ratio 1/2 and loses exactly 15 points
C3_ScoreFormula ==
    \A j \in 1..Len(scored_data) :
        /\ scored_data[j].score = ClosedForm(scored_data[j])
        /\ (scored_data[j].amountUSD_borrow = Num(100)
              /\ scored_data[j].amountUSD_liquidation = Num(50))
           => /\ scored_data[j].liquidation_to_borrow_ratio = Fin(1, 2)
              /\ VMul(scored_data[j].liquidation_to_borrow_ratio, Num(30)) = Num(15)

\* a wallet with borrow 100 and liquidation 50 was scored 50 + 20 + 2 - 15
C3_Witness ==
    /\ pc = "save" /\ scored_data # <<>>
    /\ scored_data[1].amountUSD_borrow = Num(100)
    /\ scored_data[1].amountUSD_liquidation = Num(50)
    /\ scored_data[1].score = Num(57)

Included(w) == \E i \in 1..Len(csv.rows) : csv.rows[i].acct = w

\* C5: the top-N selection returns exactly min(N, number of distinct wallets) wallets,
\* each with its own score, and every excluded wallet's score is <= the score of every
\* included wallet
C5_TopN ==
    (pc = "done" /\ csv.written) =>
        /\ Len(csv.rows) =
              Min(sel_n, Cardinality({scored_data[j].acct : j \in 1..Len(scored_data)}))
        /\ Cardinality({csv.rows[i].acct : i \in 1..Len(csv.rows)}) = Len(csv.rows)
        /\ \A i \in 1..Len(csv.rows) :
              \E j \in 1..Len(scored_data) :
                  csv.rows[i] = [acct |-> scored_data[j].acct, score |-> scored_data[j].score]
        /\ \A e \in 1..Len(scored_data) :
              ~Included(scored_data[e].acct) =>
                  \A i \in 1..Len(csv.rows) : VLe(scored_data[e].score, csv.rows[i].score)

\* fewer wallets were selected than scored, and the first wallet of the table was
\* left out for a later one with a higher score
C5_Witness ==
    /\ pc = "done" /\ csv.written
    /\ 0 < sel_n /\ sel_n < Len(scored_data)
    /\ ~Included(scored_data[1].acct)
    /\ \A i \in 1..Len(csv.rows) : VLt(scored_data[1].score, csv.rows[i].score)

----
(* Claims about the whole run, under Spec *)

\* the elements of collection c over the files read, in the order of the files
RECURSIVE ElementsOf(_, _)
ElementsOf(fs, c) ==
    IF fs = <<>> THEN <<>>
    ELSE (IF c \in Head(fs).keys THEN Head(fs).recs[c] ELSE <<>>) \o ElementsOf(Tail(fs), c)

AllElements(fs) == UNION {{ElementsOf(fs, c)[j] : j \in 1..Len(ElementsOf(fs, c))} : c \in CollKeys}

ValidAmount(r) == r.amt \in {"100", "50", "0"}

AllRead == Len(files) = nfiles
PreprocessRan == pc \in {"score", "save"} \/ (pc = "done" /\ csv.written)

\* C2: a wallet of the feature table whose total borrowed USD is 0 has
\* liquidation_to_borrow_ratio exactly 0, also when it was liquidated for more than 0
C2_ZeroBorrowZeroRatio ==
    \A j \in 1..Len(features) :
        features[j].amountUSD_borrow = Num(0) =>
            features[j].liquidation_to_borrow_ratio = Num(0)

\* C4: the feature table has exactly one row per distinct account.id of a record with a
\* valid amount: none missing, none twice, none for a wallet seen only with an invalid
\* amount
C4_OneRowPerWallet ==
    PreprocessRan =>
        /\ {features[j].acct : j \in 1..Len(features)} =
              {r.acct : r \in {x \in AllElements(files) : ValidAmount(x) /\ x.acct # NA}}
        /\ \A i, j \in 1..Len(features) : i # j => features[i].acct # features[j].acct

\* 0xAA was liquidated for 50 and has the only row; 0xBB is seen only with an invalid amount
C4_Witness ==
    /\ PreprocessRan
    /\ Len(features) = 1
    /\ features[1].acct = "0xAA"
    /\ features[1].amountUSD_liquidation = Num(50)
    /\ \E r \in AllElements(files) : r.acct = "0xBB" /\ ~ValidAmount(r)

NoValidRecord(fs) == \A r \in AllElements(fs) : ~ValidAmount(r)

\* C6: a run that meets a fatal condition (a file that does not parse, or no record with
\* a valid amount in any file) ends without writing top_wallets.csv
C6_FatalNoOutput ==
    ((\E j \in 1..Len(files) : ~files[j].ok) \/ (AllRead /\ NoValidRecord(files)))
        => ~csv.written

NoRecordAnywhere == AllRead /\ (\A j \in 1..Len(files) : files[j].ok) /\ TotalRecs(files) = 0

\* C7: when no file yields a record, load_data returns an empty result, main reports
\* "no data" and stops: preprocess, scoring and save never run
C7_NoDataStops ==
    (NoRecordAnywhere /\ pc # "load") =>
        /\ raw_data.rows = <<>>
        /\ pc \in {"main", "done"}
        /\ data = <<>> /\ features = <<>> /\ scored_data = <<>>
        /\ ~csv.written
        /\ pc = "done" => stdout = <<"No data was loaded. Please verify the dataset.">>

\* the run of two files, one of them with an empty collection, ended with "no data"
C7_Witness ==
    /\ NoRecordAnywhere /\ pc = "done"
    /\ Len(files) = 2
    /\ \E j \in 1..Len(files) : files[j].keys # {}
    /\ stdout = <<"No data was loaded. Please verify the dataset.">>

\* the two files of the scenario
ScenarioA ==
    File({"deposits"},
         [NoRecs EXCEPT !["deposits"] = <<InRec("0xAA", "100", "USDC", NA, NA, NA)>>], NA, NA)
ScenarioB ==
    File({"liquidations"},
         [NoRecs EXCEPT !["liquidations"] = <<InRec("0xAA", "50", "USDC", NA, "0xBB", NA)>>],
         NA, NA)

\* C8: on the two files of the scenario the run yields a row for 0xAA with
\* transaction_count 2, asset_nunique 1, amountUSD_liquidation 50, liquidatee_count 1 and
\* score 67, and a row for 0xBB with liquidator_count 1
C8_Scenario ==
    (files = <<ScenarioA, ScenarioB>> /\ pc \in {"done", "crashed", "exited"}) =>
        /\ \E j \in 1..Len(scored_data) :
              /\ scored_data[j].acct = "0xAA"
              /\ scored_data[j].transaction_type_count = Num(2)
              /\ scored_data[j].asset_symbol_nunique = Num(1)
              /\ scored_data[j].amountUSD_liquidation = Num(50)
              /\ scored_data[j].liquidatee_count = Num(1)
              /\ scored_data[j].score = Num(67)
        /\ \E j \in 1..Len(scored_data) :
              /\ scored_data[j].acct = "0xBB"
              /\ scored_data[j].liquidator_count = Num(1)

\* the fields of a row that come from the record itself
Payload(r) == [acct |-> r.acct, amt |-> r.amt, asset |-> r.asset]
Payloads(rows) == [j \in 1..Len(rows) |-> Payload(rows[j])]
Tagged(rows, t) == SelectSeq(rows, LAMBDA r : r.ttype = t)
NumericPayloads(rows) ==
    [j \in 1..Len(rows) |-> [acct |-> rows[j].acct, amt |-> ToNumeric(rows[j].amt),
                             asset |-> rows[j].asset]]

Orders(sq) ==
    {[j \in 1..Len(sq) |-> sq[p[j]]] : p \in Permutations(1..Len(sq))}

\* the collections of f from KeyTypes[j] on, each with its records in any order
RECURSIVE RecsVariants(_, _)
RecsVariants(f, j) ==
    IF j > Len(KeyTypes) THEN {f.recs}
    ELSE {[rr EXCEPT ![KeyTypes[j][1]] = o] :
            rr \in RecsVariants(f, j + 1), o \in Orders(f.recs[KeyTypes[j][1]])}

\* a file with the records of each collection in any order
FileVariants(f) == {[f EXCEPT !.recs = rr] : rr \in RecsVariants(f, 1)}

\* the sequences that take their j-th element from the j-th set
RECURSIVE Product(_)
Product(sets) ==
    IF sets = <<>> THEN {<<>>}
    ELSE {<<x>> \o rest : x \in Head(sets), rest \in Product(Tail(sets))}

\* the files in any order, each with its records in any order
InputVariants(fs) ==
    UNION {Product([j \in 1..Len(fs) |-> FileVariants(fs[p[j]])]) :
             p \in Permutations(1..Len(fs))}

AsSet(rows) == {rows[j] : j \in 1..Len(rows)}

====
